---- MODULE Spec2Model ----
(***************************************************************************)
(* Model of src/src/pull_and_build.py: the partner-map synchronisation     *)
(* run (main), its two retrying API clients (shopify_graphql and           *)
(* geocode_location), the geocode cache and the two-step file writer       *)
(* (safe_json_write).                                                      *)
(*                                                                         *)
(* One run of main is a sequence of steps; every loop iteration of the     *)
(* retry loops, every row of a page and every file-system call of          *)
(* safe_json_write is one step, so that the process can be terminated      *)
(* between any two of them.                                                *)
(*                                                                         *)
(* Four specifications: Spec (one run, with failing requests and           *)
(* termination of the process), SpecRerun (consecutive runs), SpecLive     *)
(* (one run in which every request is answered, with weak fairness) and    *)
(* SpecApplied (classify_activity, parse_list and the activity block of    *)
(* main applied on their own).                                             *)
(***************************************************************************)
EXTENDS Integers, Sequences, FiniteSets, TLC

VARIABLES
    fs,            \* the file system: path -> file content
    upstream,      \* the customer pages the data source holds (fixed)
    clock,         \* wall clock (seconds), read by utc_now()
    runs,          \* number of runs of main started so far
    pc,            \* position of the control flow of main
    geocache,      \* main: the in-memory cache map
    partners,      \* main: the partner list built so far
    cursor,        \* main: number of pages consumed (None = 0)
    row,           \* main: index of the row of the current page
    now,           \* main: reference time of the run
    generated_at,  \* main: timestamp put into the snapshot
    log,           \* the requests of the current API call: <<[resp, sleep]>>
    api,           \* which client issued the requests of log
    last,          \* summary of the API call that returned last
    cause,         \* why the run stopped (exception raised / step killed at)
    pre,           \* history: the file system when the run started
    loaded,        \* history: the cache map as loaded at the start of the run
    prev,          \* history: how the previous run ended, its reference time
                   \* and the rows it skipped for "no geocode result"
    dropped,       \* history: rows of this run skipped for "no geocode result"
    geocoded,      \* history: rows of this run for which the geocoder was called
    applied        \* a helper function applied to arguments on its own, and
                   \* what it returned

vars == <<fs, upstream, clock, runs, pc, geocache, partners, cursor, row, now,
          generated_at, log, api, last, cause, pre, loaded, prev, dropped, geocoded,
          applied>>

(***************************************************************************)
(* Bounds of the model                                                     *)
(***************************************************************************)
MaxPages == 2      \* pages the data source holds at most
MaxRuns == 2       \* runs of main in one behaviour
MaxOrders == 11    \* order counts handed to classify_activity: 0..MaxOrders
MaxOrderLen == 2   \* orders of a customer whose activity is computed on its own

(***************************************************************************)
(* Program constants                                                       *)
(***************************************************************************)
SHOPIFY_ATTEMPTS == 6
GEOCODE_ATTEMPTS == 5
BACKOFF_CAP == 60
DAYS_12M == 365
DAYS_6M == 180
THRESH_REGULAR_6M == 3
THRESH_REGULAR_12M == 6
THRESH_HIGH_12M == 10
RECENT_DAYS == 60
SECONDS_PER_DAY == 86400
SCHEMA_VERSION == 2

PUBLIC_PARTNERS_PATH == "partners.json"
PUBLIC_GEOCACHE_PATH == "geocache.json"

None == "<None>"

(***************************************************************************)
(* Time.  Timestamps are seconds on a UTC time line.                       *)
(***************************************************************************)
T0 == 400 * SECONDS_PER_DAY
Times == {T0, T0 + SECONDS_PER_DAY}

\* an optional integer (Optional[int])
NoInt == [some |-> FALSE, v |-> 0]
SomeInt(x) == [some |-> TRUE, v |-> x]

(***************************************************************************)
(* Strings.  str.strip() and str.lower() on the strings of the model.      *)
(***************************************************************************)
Strip(s) ==
    CASE s = " Berlin " -> "Berlin"
      [] s = "  " -> ""
      [] s = "true " -> "true"
      [] s = " phone " -> "phone"
      [] s = " " -> ""
      [] s = " [\"email\"] " -> "[\"email\"]"
      [] OTHER -> s

Lower(s) ==
    CASE s = "Berlin" -> "berlin"
      [] s = "DE" -> "de"
      [] s = "Muenchen" -> "muenchen"
      [] s = "Yes" -> "yes"
      [] OTHER -> s

parse_bool(val) ==
    IF val = None THEN FALSE
    ELSE Lower(Strip(val)) \in {"true", "1", "yes", "y", "on"}

\* (get_metafield_value(node, alias) or "").strip()
Field(val) == IF val = None THEN "" ELSE Strip(val)

\* s.startswith("[") and s.endswith("]")
Bracketed(s) ==
    s \in { "[]", "[\"email\"]", "[\"email\",\"phone\"]", "[\"email\",\"\",\" \",\"phone\"]",
            "[1,null]", "[not json]" }

\* json.loads(s) of a bracketed text: the list it decodes to, each element as
\* str(x) renders it, or a raised exception
json_loads(s) ==
    CASE s = "[]" -> [ok |-> TRUE, arr |-> <<>>]
      [] s = "[\"email\"]" -> [ok |-> TRUE, arr |-> <<"email">>]
      [] s = "[\"email\",\"phone\"]" -> [ok |-> TRUE, arr |-> <<"email", "phone">>]
      [] s = "[\"email\",\"\",\" \",\"phone\"]" ->
             [ok |-> TRUE, arr |-> <<"email", "", " ", "phone">>]
      [] s = "[1,null]" -> [ok |-> TRUE, arr |-> <<"1", "None">>]
      [] OTHER -> [ok |-> FALSE, arr |-> <<>>]

\* "if str(x).strip()"
NotBlank(x) == Strip(x) # ""

\* "if not val": None and the empty string are falsy
Falsy(val) == val = None \/ val = ""

parse_list(val) ==
    IF Falsy(val) THEN <<>>
    ELSE LET s == Strip(val)
         IN  IF Bracketed(s) /\ json_loads(s).ok
             THEN SelectSeq(json_loads(s).arr, NotBlank)
             ELSE <<s>>

(***************************************************************************)
(* The data source: customers, pages                                       *)
(***************************************************************************)
\* suppression_flag is an attribute of the customer that CUSTOMERS_QUERY does
\* not request: main never sees it
Customer(id, listung, plz, stadt, land, orders) ==
    [id |-> id, mf_listung |-> listung, mf_plz |-> plz, mf_stadt |-> stadt,
     mf_land |-> land, orders |-> orders, suppression_flag |-> None]

\* processedAt of an order: a timestamp, or -1 for an absent or unparseable one
Unparseable == 0 - 1

cBerlin == Customer("gid/1", "true ", "10115", " Berlin ", "DE",
                    <<T0 - (SECONDS_PER_DAY \div 2)>>)
cBerlin2 == [Customer("gid/2", "Yes", "10115", "berlin", "de", <<>>)
                EXCEPT !.suppression_flag = "true"]
cMunich == Customer("gid/3", "1", "80331", "Muenchen", "DE",
                    <<Unparseable, T0 - 100 * SECONDS_PER_DAY>>)
cUnlisted == Customer("gid/4", None, "10115", "Berlin", "DE", <<>>)
cNoCountry == Customer("gid/5", "true", "10115", "Berlin", "  ", <<>>)

PageCatalog ==
    { <<cBerlin, cBerlin2>>, <<cMunich, cUnlisted, cNoCountry>>, <<>> }

RECURSIVE SeqsUpTo(_, _)
SeqsUpTo(S, n) ==
    IF n = 0 THEN { <<>> }
    ELSE LET shorter == SeqsUpTo(S, n - 1)
         IN  shorter \cup { Append(s, x) : s \in { t \in shorter : Len(t) = n - 1 }, x \in S }

Upstreams == { u \in SeqsUpTo(PageCatalog, MaxPages) : Len(u) >= 1 }

(***************************************************************************)
(* The geocode cache: key -> entry.  A key that is not in the map is       *)
(* mapped to Missing.                                                      *)
(***************************************************************************)
Keys == {"10115|berlin|de", "80331|muenchen|de", "99999|altdorf|de"}

Missing == [kind |-> "missing", lat |-> 0, lng |-> 0, formatted |-> ""]
EmptyEntry == [kind |-> "empty", lat |-> 0, lng |-> 0, formatted |-> ""]
Entry(lat, lng, formatted) ==
    [kind |-> "entry", lat |-> lat, lng |-> lng, formatted |-> formatted]

EmptyCache == [k \in Keys |-> Missing]

\* Python truthiness of geocache.get(cache_key)
Truthy(v) == v.kind = "entry"

InCache(c, k) == c[k].kind # "missing"

OldEntry == Entry(50, 10, "cached")

\* JSON null where a number is expected
JsonNull == 0 - 999

\* a non-empty entry whose coordinates are null: {"lat": null, "lng": null, ...}
NullEntry == Entry(JsonNull, JsonNull, "cached")

\* a JSON document that is not an object (a list, say): it has no "get", so
\* the look-up of any key raises AttributeError
NotAMapping == [kind |-> "not_a_mapping", lat |-> 0, lng |-> 0, formatted |-> ""]
WrongShapeCache == [k \in Keys |-> NotAMapping]

LookupRaises(c, k) == c[k].kind = "not_a_mapping"

InitCaches ==
    { EmptyCache,
      [EmptyCache EXCEPT !["10115|berlin|de"] = OldEntry],
      [EmptyCache EXCEPT !["10115|berlin|de"] = EmptyEntry,
                         !["80331|muenchen|de"] = NullEntry,
                         !["99999|altdorf|de"] = OldEntry],
      [k \in Keys |-> OldEntry] }

(***************************************************************************)
(* Files                                                                   *)
(***************************************************************************)
\* a plausible slip: the file is written in place
TmpPath_InPlace(path) == path

TmpPath(path) == path \o ".tmp"

Paths == { PUBLIC_PARTNERS_PATH, PUBLIC_GEOCACHE_PATH,
           TmpPath(PUBLIC_PARTNERS_PATH), TmpPath(PUBLIC_GEOCACHE_PATH) }

Absent == [kind |-> "absent"]
Truncated == [kind |-> "truncated"]      \* an incomplete JSON text
JsonFile(d) == [kind |-> "json", data |-> d]

safe_json_load(content, default) ==
    IF content.kind = "json" THEN content.data ELSE default

Snapshot(g, ps) == [schema_version |-> SCHEMA_VERSION, generated_at |-> g, partners |-> ps]

OldSnapshot ==
    Snapshot(0, << [partner_id |-> "gid/0", zip |-> "00000", city |-> "Altdorf",
                    country |-> "DE", lat |-> 50, lng |-> 10,
                    activity |-> [label |-> None, orders_6m |-> 0, orders_12m |-> 0,
                                  last_order_days |-> NoInt]] >>)

(***************************************************************************)
(* Activity of a partner (main, lines 308-329)                             *)
(***************************************************************************)
\* a plausible slip: an unparseable timestamp is taken for a time
parse_iso_dt_Lenient(p) == SomeInt(p)

parse_iso_dt(p) == IF p = Unparseable THEN NoInt ELSE SomeInt(p)

days_since(dt, t) == (t - dt) \div SECONDS_PER_DAY

\* a plausible slip: the "recent" tier is tested before the "regular" tier
classify_activity_RecentFirst(orders_6m, orders_12m, last_order_days) ==
    IF orders_12m <= 0 /\ ~last_order_days.some THEN None
    ELSE IF orders_12m >= THRESH_HIGH_12M /\ last_order_days.some
            /\ last_order_days.v <= RECENT_DAYS THEN "Sehr aktiv"
    ELSE IF last_order_days.some /\ last_order_days.v <= RECENT_DAYS THEN "Kuerzlich aktiv"
    ELSE IF orders_6m >= THRESH_REGULAR_6M \/ orders_12m >= THRESH_REGULAR_12M
         THEN "Regelmaessig aktiv"
    ELSE IF orders_12m > 0 THEN "Aktiv"
    ELSE None

classify_activity(orders_6m, orders_12m, last_order_days) ==
    IF orders_12m <= 0 /\ ~last_order_days.some THEN None
    ELSE IF orders_12m >= THRESH_HIGH_12M /\ last_order_days.some
            /\ last_order_days.v <= RECENT_DAYS THEN "Sehr aktiv"
    ELSE IF orders_6m >= THRESH_REGULAR_6M \/ orders_12m >= THRESH_REGULAR_12M
         THEN "Regelmaessig aktiv"
    ELSE IF last_order_days.some /\ last_order_days.v <= RECENT_DAYS THEN "Kuerzlich aktiv"
    ELSE IF orders_12m > 0 THEN "Aktiv"
    ELSE None

Activity(node, t) ==
    LET processed == { i \in 1..Len(node.orders) : parse_iso_dt(node.orders[i]).some }
        last_order_at ==
            IF processed = {} THEN NoInt
            ELSE SomeInt(node.orders[CHOOSE i \in processed :
                             \A j \in processed : node.orders[j] <= node.orders[i]])
        last_order_days ==
            IF last_order_at.some THEN SomeInt(days_since(last_order_at.v, t)) ELSE NoInt
        cutoff_12m == t - DAYS_12M * SECONDS_PER_DAY
        cutoff_6m == t - DAYS_6M * SECONDS_PER_DAY
        orders_12m == Cardinality({ i \in processed : node.orders[i] >= cutoff_12m })
        orders_6m == Cardinality({ i \in processed : node.orders[i] >= cutoff_6m })
    IN  [label |-> classify_activity(orders_6m, orders_12m, last_order_days),
         orders_6m |-> orders_6m, orders_12m |-> orders_12m,
         last_order_days |-> last_order_days]

(***************************************************************************)
(* One row of a page (main, lines 262-357)                                 *)
(***************************************************************************)
zip_code(node) == Field(node.mf_plz)
city(node) == Field(node.mf_stadt)
country(node) == Field(node.mf_land)

Eligible(node) ==
    /\ parse_bool(node.mf_listung)
    /\ zip_code(node) # "" /\ city(node) # "" /\ country(node) # ""

\* f"{zip_code}|{city}|{country}".lower(); lower() acts on each part alike
cache_key(node) ==
    Lower(zip_code(node)) \o "|" \o Lower(city(node)) \o "|" \o Lower(country(node))

Partner(node, lat, lng, t) ==
    [partner_id |-> node.id, zip |-> zip_code(node), city |-> city(node),
     country |-> country(node), lat |-> lat, lng |-> lng,
     activity |-> Activity(node, t)]

\* a plausible slip: the cache is never consulted
CacheHit_Never(c, k) == FALSE

\* "if cached:" in main
CacheHit(c, k) == Truthy(c[k])

(***************************************************************************)
(* Retry loops                                                             *)
(***************************************************************************)
Min(a, b) == IF a <= b THEN a ELSE b

\* a plausible slip: 2 * attempt for 2 ** attempt
Backoff_Linear(attempt) == Min(BACKOFF_CAP, 2 * attempt)

\* time.sleep(min(60, 2 ** attempt))
Backoff(attempt) == Min(BACKOFF_CAP, 2 ^ attempt)

Request(resp, sleep) == [resp |-> resp, sleep |-> sleep]

(***************************************************************************)
(* Initial state: no run has started; the two artifacts are whatever an    *)
(* earlier deployment left behind.                                         *)
(***************************************************************************)
InitFiles ==
    { [p \in Paths |->
          IF p = PUBLIC_PARTNERS_PATH THEN ps
          ELSE IF p = PUBLIC_GEOCACHE_PATH THEN gc
          ELSE Absent] :
      ps \in { Absent, JsonFile(OldSnapshot) },
      gc \in { Absent, Truncated, JsonFile(WrongShapeCache) }
                \cup { JsonFile(c) : c \in InitCaches } }

NoApplication == [fn |-> "none", args |-> <<>>, returned |-> FALSE, ret |-> None]

NoCall == [api |-> "none", result |-> "none", requests |-> 0, sleep |-> 0]

Init ==
    /\ fs \in InitFiles
    /\ upstream \in Upstreams
    /\ clock = T0
    /\ runs = 0
    /\ pc = "idle"
    /\ geocache = EmptyCache
    /\ partners = <<>>
    /\ cursor = 0
    /\ row = 1
    /\ now = T0
    /\ generated_at = 0
    /\ log = <<>>
    /\ api = "none"
    /\ last = NoCall
    /\ cause = "none"
    /\ pre = fs
    /\ loaded = EmptyCache
    /\ prev = [status |-> "none", now |-> 0, dropped |-> {}]
    /\ dropped = {}
    /\ geocoded = {}
    /\ applied = NoApplication

Stopped == {"done", "failed", "killed"}

Page == upstream[cursor + 1]
Node == Page[row]
Pos == <<cursor + 1, row>>

\* a plausible slip: the cache is saved when the run fails
Abort_SavesCache(c) ==
    /\ pc' = "failed"
    /\ cause' = c
    /\ fs' = [fs EXCEPT ![PUBLIC_GEOCACHE_PATH] = JsonFile(geocache)]

\* an exception leaves main: nothing else is executed
Abort(c) ==
    /\ pc' = "failed"
    /\ cause' = c
    /\ UNCHANGED fs

\* the API call of log returns to main
Return(result, sleep) ==
    /\ last' = [api |-> api, result |-> result, requests |-> Len(log) + 1,
                sleep |-> sleep]
    /\ log' = <<>>
    /\ api' = "none"

(***************************************************************************)
(* main, lines 250-256                                                     *)
(***************************************************************************)
Begin ==
    /\ runs' = runs + 1
    /\ \E t \in { u \in Times : u >= clock } : clock' = t /\ now' = t
    /\ pre' = fs
    /\ prev' = [status |-> pc, now |-> now, dropped |-> dropped]
    /\ UNCHANGED <<fs, upstream, applied, generated_at>>

\* get_shopify_access_token returned
TokenOk ==
    /\ geocache' = safe_json_load(fs[PUBLIC_GEOCACHE_PATH], EmptyCache)
    /\ loaded' = geocache'
    /\ partners' = <<>>
    /\ cursor' = 0
    /\ row' = 1
    /\ log' = <<>>
    /\ last' = NoCall
    /\ dropped' = {}
    /\ geocoded' = {}
    /\ pc' = "fetch"
    /\ api' = "shopify"
    /\ cause' = "none"

\* get_shopify_access_token raises (raise_for_status)
TokenError ==
    /\ api' = "token"
    /\ log' = <<>>
    /\ last' = NoCall
    /\ pc' = "failed"
    /\ cause' = "http_error"
    /\ UNCHANGED <<geocache, partners, cursor, row, loaded, dropped, geocoded>>

StartRun ==
    /\ pc = "idle"
    /\ Begin
    /\ TokenOk

StartRunTokenError ==
    /\ pc = "idle"
    /\ Begin
    /\ TokenError

\* the scheduler starts main again
Rerun ==
    /\ pc \in Stopped
    /\ runs < MaxRuns
    /\ Begin
    /\ TokenOk

(***************************************************************************)
(* shopify_graphql, lines 108-119: one step per iteration of the loop      *)
(***************************************************************************)
InFetch == pc = "fetch" /\ Len(log) < SHOPIFY_ATTEMPTS

\* status in (429, 500, 502, 503, 504): sleep, continue; after the last
\* iteration the loop ends and RuntimeError is raised
ShopifyTransient ==
    /\ InFetch
    /\ log' = Append(log, Request("transient", Backoff(Len(log))))
    /\ IF Len(log') = SHOPIFY_ATTEMPTS
       THEN Abort("retries_exhausted")
       ELSE UNCHANGED <<pc, cause, fs>>
    /\ UNCHANGED <<upstream, applied, clock, runs, geocache, partners, cursor, row, now,
                   generated_at, api, last, pre, loaded, prev, dropped, geocoded>>

\* r.raise_for_status() raises
ShopifyHttpError ==
    /\ InFetch
    /\ log' = Append(log, Request("http_error", 0))
    /\ Abort("http_error")
    /\ UNCHANGED <<upstream, applied, clock, runs, geocache, partners, cursor, row, now,
                   generated_at, api, last, pre, loaded, prev, dropped, geocoded>>

\* a plausible slip: a response with errors is retried like a transient one
ShopifyErrors_Retried ==
    /\ InFetch
    /\ log' = Append(log, Request("errors", Backoff(Len(log))))
    /\ IF Len(log') = SHOPIFY_ATTEMPTS
       THEN Abort("retries_exhausted")
       ELSE UNCHANGED <<pc, cause, fs>>
    /\ UNCHANGED <<upstream, applied, clock, runs, geocache, partners, cursor, row, now,
                   generated_at, api, last, pre, loaded, prev, dropped, geocoded>>

\* data.get("errors") is non-empty
ShopifyErrors ==
    /\ InFetch
    /\ log' = Append(log, Request("errors", 0))
    /\ Abort("graphql_errors")
    /\ UNCHANGED <<upstream, applied, clock, runs, geocache, partners, cursor, row, now,
                   generated_at, api, last, pre, loaded, prev, dropped, geocoded>>

\* return data["data"]: the page at the cursor
ShopifyOk ==
    /\ InFetch
    /\ Return("ok", 0)
    /\ pc' = "rows"
    /\ row' = 1
    /\ UNCHANGED <<fs, upstream, applied, clock, runs, geocache, partners, cursor, now,
                   generated_at, cause, pre, loaded, prev, dropped, geocoded>>

(***************************************************************************)
(* main, lines 262-306: the rows of the page                               *)
(***************************************************************************)
InRow == pc = "rows" /\ row <= Len(Page)

\* "continue" at line 266 or 273
RowSkip ==
    /\ InRow
    /\ ~Eligible(Node)
    /\ row' = row + 1
    /\ UNCHANGED <<fs, upstream, applied, clock, runs, pc, geocache, partners, cursor, now,
                   generated_at, log, api, last, cause, pre, loaded, prev, dropped,
                   geocoded>>

\* line 296: geocache.get raises, the exception leaves main
RowLookupError ==
    /\ InRow
    /\ Eligible(Node)
    /\ LookupRaises(geocache, cache_key(Node))
    /\ Abort("attribute_error")
    /\ UNCHANGED <<upstream, applied, clock, runs, geocache, partners, cursor, row, now,
                   generated_at, log, api, last, pre, loaded, prev, dropped, geocoded>>

\* lines 298-299, 308-357
RowCacheHit ==
    /\ InRow
    /\ Eligible(Node)
    /\ ~LookupRaises(geocache, cache_key(Node))
    /\ CacheHit(geocache, cache_key(Node))
    /\ LET cached == geocache[cache_key(Node)]
       IN  partners' = Append(partners, Partner(Node, cached.lat, cached.lng, now))
    /\ row' = row + 1
    /\ UNCHANGED <<fs, upstream, applied, clock, runs, pc, geocache, cursor, now,
                   generated_at, log, api, last, cause, pre, loaded, prev, dropped,
                   geocoded>>

\* line 301: geocode_location is called
RowCacheMiss ==
    /\ InRow
    /\ Eligible(Node)
    /\ ~LookupRaises(geocache, cache_key(Node))
    /\ ~CacheHit(geocache, cache_key(Node))
    /\ pc' = "geocode"
    /\ api' = "geocode"
    /\ log' = <<>>
    /\ geocoded' = geocoded \cup {Pos}
    /\ UNCHANGED <<fs, upstream, applied, clock, runs, geocache, partners, cursor, row, now,
                   generated_at, last, cause, pre, loaded, prev, dropped>>

(***************************************************************************)
(* geocode_location, lines 131-146, and lines 302-306 of main              *)
(***************************************************************************)
InGeocode == pc = "geocode" /\ Len(log) < GEOCODE_ATTEMPTS

\* geocode_location returned None: "if not geo: continue"
GeoNone(why, sleep) ==
    /\ Return(why, sleep)
    /\ pc' = "rows"
    /\ row' = row + 1
    /\ dropped' = dropped \cup {Pos}
    /\ UNCHANGED <<geocache, partners>>

\* the loop goes on with the next attempt, or ends: "return None" at line 146
GeoNextAttempt(resp, sleep) ==
    IF Len(log) + 1 = GEOCODE_ATTEMPTS
    THEN GeoNone("exhausted", sleep)
    ELSE /\ log' = Append(log, Request(resp, sleep))
         /\ UNCHANGED <<pc, row, dropped, geocache, partners, api, last>>

\* status in (429, 500, 502, 503, 504): sleep, continue
GeoTransient ==
    /\ InGeocode
    /\ GeoNextAttempt("transient", Backoff(Len(log)))
    /\ UNCHANGED <<fs, upstream, applied, clock, runs, cursor, now, generated_at, cause,
                   pre, loaded, prev, geocoded>>

\* a 2xx response whose status is neither OK (with results) nor
\* ZERO_RESULTS / INVALID_REQUEST: neither "if" matches, the loop goes on
GeoOtherStatus ==
    /\ InGeocode
    /\ GeoNextAttempt("other_status", 0)
    /\ UNCHANGED <<fs, upstream, applied, clock, runs, cursor, now, generated_at, cause,
                   pre, loaded, prev, geocoded>>

\* r.raise_for_status() raises
GeoHttpError ==
    /\ InGeocode
    /\ log' = Append(log, Request("http_error", 0))
    /\ Abort("http_error")
    /\ UNCHANGED <<upstream, applied, clock, runs, geocache, partners, cursor, row, now,
                   generated_at, api, last, pre, loaded, prev, dropped, geocoded>>

\* a plausible slip: "no result" is remembered in the cache
GeoNoResult_NegativeCache ==
    /\ InGeocode
    /\ Return("no_result", 0)
    /\ pc' = "rows"
    /\ row' = row + 1
    /\ dropped' = dropped \cup {Pos}
    /\ geocache' = [geocache EXCEPT ![cache_key(Node)] = EmptyEntry]
    /\ UNCHANGED <<fs, upstream, applied, clock, runs, partners, cursor, now, generated_at,
                   cause, pre, loaded, prev, geocoded>>

\* status ZERO_RESULTS or INVALID_REQUEST: return None
GeoNoResult ==
    /\ InGeocode
    /\ GeoNone("no_result", 0)
    /\ UNCHANGED <<fs, upstream, applied, clock, runs, cursor, now, generated_at, cause,
                   pre, loaded, prev, geocoded>>

\* the provider's answer to an address it can resolve
Resolve(node) ==
    IF city(node) = "Muenchen" THEN Entry(48, 11, "Munich, Germany")
    ELSE Entry(52, 13, "Berlin, Germany")

\* a plausible slip: the cache file is saved after every lookup
GeoOk_WriteThrough ==
    /\ InGeocode
    /\ LET geo == Resolve(Node)
       IN  /\ geocache' = [geocache EXCEPT ![cache_key(Node)] = geo]
           /\ partners' = Append(partners, Partner(Node, geo.lat, geo.lng, now))
           /\ fs' = [fs EXCEPT ![PUBLIC_GEOCACHE_PATH] = JsonFile(geocache')]
    /\ Return("ok", 0)
    /\ pc' = "rows"
    /\ row' = row + 1
    /\ UNCHANGED <<upstream, applied, clock, runs, cursor, now, generated_at, cause,
                   pre, loaded, prev, dropped, geocoded>>

\* status OK with results: lines 304-306, 308-357
GeoOk ==
    /\ InGeocode
    /\ LET geo == Resolve(Node)
       IN  /\ geocache' = [geocache EXCEPT ![cache_key(Node)] = geo]
           /\ partners' = Append(partners, Partner(Node, geo.lat, geo.lng, now))
    /\ Return("ok", 0)
    /\ pc' = "rows"
    /\ row' = row + 1
    /\ UNCHANGED <<fs, upstream, applied, clock, runs, cursor, now, generated_at, cause,
                   pre, loaded, prev, dropped, geocoded>>

(***************************************************************************)
(* main, lines 359-370: the end of a page                                  *)
(***************************************************************************)
hasNextPage == cursor + 1 < Len(upstream)

NextPage ==
    /\ pc = "rows" /\ row > Len(Page)
    /\ hasNextPage
    /\ cursor' = cursor + 1
    /\ row' = 1
    /\ pc' = "fetch"
    /\ api' = "shopify"
    /\ log' = <<>>
    /\ UNCHANGED <<fs, upstream, applied, clock, runs, geocache, partners, now,
                   generated_at, last, cause, pre, loaded, prev, dropped, geocoded>>

\* break; the snapshot object is built (utc_now_iso()), the first
\* safe_json_write begins
LastPage ==
    /\ pc = "rows" /\ row > Len(Page)
    /\ ~hasNextPage
    /\ \E t \in { u \in Times : u >= clock } :
          /\ generated_at' = t
          /\ clock' = t
    /\ pc' = "open1"
    /\ UNCHANGED <<fs, upstream, applied, runs, geocache, partners, cursor, row, now,
                   log, api, last, cause, pre, loaded, prev, dropped, geocoded>>

(***************************************************************************)
(* safe_json_write, lines 54-62                                            *)
(***************************************************************************)
WritePath(n) == IF n = 1 THEN PUBLIC_PARTNERS_PATH ELSE PUBLIC_GEOCACHE_PATH

\* a plausible slip: the new partners are added to those of the old snapshot
WriteData_Merged(n) ==
    IF n = 1
    THEN Snapshot(generated_at,
                  (IF fs[PUBLIC_PARTNERS_PATH].kind = "json"
                   THEN fs[PUBLIC_PARTNERS_PATH].data.partners ELSE <<>>) \o partners)
    ELSE geocache

WriteData(n) == IF n = 1 THEN Snapshot(generated_at, partners) ELSE geocache
Digit(n) == IF n = 1 THEN "1" ELSE "2"

\* open(tmp, "w"): the temporary file exists and is empty
WriteOpen(n) ==
    /\ pc = "open" \o Digit(n)
    /\ fs' = [fs EXCEPT ![TmpPath(WritePath(n))] = Truncated]
    /\ pc' = "dump" \o Digit(n)
    /\ UNCHANGED <<upstream, applied, clock, runs, geocache, partners, cursor, row, now,
                   generated_at, log, api, last, cause, pre, loaded, prev, dropped,
                   geocoded>>

\* json.dump and close: the temporary file is complete
WriteDump(n) ==
    /\ pc = "dump" \o Digit(n)
    /\ fs' = [fs EXCEPT ![TmpPath(WritePath(n))] = JsonFile(WriteData(n))]
    /\ pc' = "replace" \o Digit(n)
    /\ UNCHANGED <<upstream, applied, clock, runs, geocache, partners, cursor, row, now,
                   generated_at, log, api, last, cause, pre, loaded, prev, dropped,
                   geocoded>>

\* os.replace(tmp, path)
WriteReplace(n) ==
    /\ pc = "replace" \o Digit(n)
    /\ fs' = [p \in Paths |->
                 IF p = WritePath(n) THEN fs[TmpPath(WritePath(n))]
                 ELSE IF p = TmpPath(WritePath(n)) THEN Absent
                 ELSE fs[p]]
    /\ pc' = IF n = 1 THEN "open2" ELSE "done"
    /\ UNCHANGED <<upstream, applied, clock, runs, geocache, partners, cursor, row, now,
                   generated_at, log, api, last, cause, pre, loaded, prev, dropped,
                   geocoded>>

(***************************************************************************)
(* The process is terminated                                               *)
(***************************************************************************)
Kill ==
    /\ pc \notin Stopped \cup {"idle"}
    /\ pc' = "killed"
    /\ cause' = pc
    /\ UNCHANGED <<fs, upstream, applied, clock, runs, geocache, partners, cursor, row, now,
                   generated_at, log, api, last, pre, loaded, prev, dropped, geocoded>>

\* the steps of a run in which every request is answered at once
Answered ==
    \/ ShopifyOk
    \/ RowSkip
    \/ RowLookupError
    \/ RowCacheHit
    \/ RowCacheMiss
    \/ GeoNoResult
    \/ GeoOk
    \/ NextPage
    \/ LastPage
    \/ \E n \in 1..2 : WriteOpen(n)
    \/ \E n \in 1..2 : WriteDump(n)
    \/ \E n \in 1..2 : WriteReplace(n)

\* the steps in which a request fails
Failing ==
    \/ ShopifyTransient
    \/ ShopifyHttpError
    \/ ShopifyErrors
    \/ GeoTransient
    \/ GeoOtherStatus
    \/ GeoHttpError

\* one run of main, which may be terminated at any step
Next ==
    \/ StartRun
    \/ StartRunTokenError
    \/ Answered
    \/ Failing
    \/ Kill

Spec == Init /\ [][Next]_vars

\* consecutive runs of main against the same data source, in which no
\* request fails (failing requests are the subject of Spec)
NextRerun ==
    \/ StartRun
    \/ Rerun
    \/ Answered

SpecRerun == Init /\ [][NextRerun]_vars

\* one run of main in which no request fails and the process is not
\* terminated: a step that can be taken is taken
NextLive ==
    \/ StartRun
    \/ Answered

SpecLive == Init /\ [][NextLive]_vars /\ WF_vars(NextLive)

(***************************************************************************)
(* The helper functions on their own: each is applied once to arguments    *)
(* drawn from the sets below, no run of main takes place.                  *)
(***************************************************************************)
Application(fn, args) == [fn |-> fn, args |-> args, returned |-> FALSE, ret |-> None]

LastOrderDays == {0, 5, 10, RECENT_DAYS, RECENT_DAYS + 1, 200, DAYS_12M + 1}

ClassifyArgs ==
    { <<o6, o12, lod>> : o6 \in 0..MaxOrders, o12 \in 0..MaxOrders,
                         lod \in {NoInt} \cup { SomeInt(d) : d \in LastOrderDays } }

\* the raw metafield values handed to parse_list
ParseListArgs ==
    { None, "", "  ", "email", " phone ", "[]", "[\"email\"]", " [\"email\"] ",
      "[\"email\",\"phone\"]", "[\"email\",\"\",\" \",\"phone\"]", "[1,null]",
      "[not json]" }

\* processedAt values of the orders of one customer
OrderTimes ==
    { Unparseable, T0 - (DAYS_12M + 25) * SECONDS_PER_DAY, T0 - 200 * SECONDS_PER_DAY,
      T0 - 100 * SECONDS_PER_DAY, T0 - (SECONDS_PER_DAY \div 2),
      T0 + (SECONDS_PER_DAY \div 2) }

ActivityArgs == { <<o, t>> : o \in SeqsUpTo(OrderTimes, MaxOrderLen), t \in Times }

InitApplied ==
    /\ fs = [p \in Paths |-> Absent]
    /\ upstream = << <<>> >>
    /\ clock = T0
    /\ runs = 0
    /\ pc = "idle"
    /\ geocache = EmptyCache
    /\ partners = <<>>
    /\ cursor = 0
    /\ row = 1
    /\ now = T0
    /\ generated_at = 0
    /\ log = <<>>
    /\ api = "none"
    /\ last = NoCall
    /\ cause = "none"
    /\ pre = fs
    /\ loaded = EmptyCache
    /\ prev = [status |-> "none", now |-> 0, dropped |-> {}]
    /\ dropped = {}
    /\ geocoded = {}
    /\ applied \in { Application("classify_activity", a) : a \in ClassifyArgs }
                  \cup { Application("parse_list", <<a>>) : a \in ParseListArgs }
                  \cup { Application("activity", a) : a \in ActivityArgs }

Returns(ret) ==
    /\ ~applied.returned
    /\ applied' = [applied EXCEPT !.returned = TRUE, !.ret = ret]
    /\ UNCHANGED <<fs, upstream, clock, runs, pc, geocache, partners, cursor, row, now,
                   generated_at, log, api, last, cause, pre, loaded, prev, dropped,
                   geocoded>>

ApplyClassifyActivity ==
    /\ applied.fn = "classify_activity"
    /\ Returns(classify_activity(applied.args[1], applied.args[2], applied.args[3]))

ApplyParseList ==
    /\ applied.fn = "parse_list"
    /\ Returns(parse_list(applied.args[1]))

\* lines 308-329 of main: the activity block of one customer at time "now"
ApplyActivity ==
    /\ applied.fn = "activity"
    /\ Returns(Activity([orders |-> applied.args[1]], applied.args[2]))

NextApplied ==
    \/ ApplyClassifyActivity
    \/ ApplyParseList
    \/ ApplyActivity

SpecApplied == InitApplied /\ [][NextApplied]_vars

(***************************************************************************)
(* Properties                                                              *)
(***************************************************************************)
\* the step the run is at, or was at when the process was terminated
Position == IF pc = "killed" THEN cause ELSE pc

\* n = 1: partners.json, n = 2: geocache.json
Renamed(n) ==
    IF n = 1 THEN Position \in {"open2", "dump2", "replace2", "done"}
    ELSE Position = "done"

PreRun(n) == fs[WritePath(n)] = pre[WritePath(n)]
ThisRun(n) == fs[WritePath(n)] = JsonFile(WriteData(n))

\* C1: when a customer-page fetch ends in a fatal error (retries exhausted,
\* a non-transient error status, a non-empty errors list), partners.json and
\* geocache.json hold their pre-run contents.
C1_FetchFailureWritesNothing ==
    (pc = "failed" /\ api = "shopify") => PreRun(1) /\ PreRun(2)

\* a fetch of the second page fails after the first page added a cache entry
C1_Witness ==
    /\ pc = "failed" /\ api = "shopify" /\ cause = "retries_exhausted"
    /\ cursor > 0
    /\ geocache # loaded

\* C2: after a completed run geocache.json contains every key of the pre-run
\* file, each mapped to an unchanged value.
C2_CacheMonotone ==
    (pc = "done" /\ pre[PUBLIC_GEOCACHE_PATH].kind = "json") =>
        \A k \in Keys :
            InCache(pre[PUBLIC_GEOCACHE_PATH].data, k) =>
                fs[PUBLIC_GEOCACHE_PATH].data[k] = pre[PUBLIC_GEOCACHE_PATH].data[k]

\* C3 as claimed: whenever a run has stopped (completion, fatal error, or
\* termination at any step), the two artifacts are both this run's output or
\* both the pre-run files.
C3_AllOrNothing ==
    pc \in Stopped =>
        \/ PreRun(1) /\ PreRun(2)
        \/ ThisRun(1) /\ ThisRun(2)

\* the process was terminated between the two renames
BetweenRenames == pc = "killed" /\ cause \in {"open2", "dump2", "replace2"}

\* C3 as amended: a run that completed, failed, or was terminated at a step
\* outside the second safe_json_write leaves both artifacts this run's output
\* or both the pre-run files; terminated inside the second safe_json_write,
\* partners.json is this run's output and geocache.json the pre-run file.
C3_AllOrNothingOutsideSecondWrite ==
    pc \in Stopped =>
        IF BetweenRenames
        THEN ThisRun(1) /\ PreRun(2)
        ELSE \/ PreRun(1) /\ PreRun(2)
             \/ ThisRun(1) /\ ThisRun(2)

\* a run completed and replaced both artifacts by different contents
C3_Witness ==
    /\ pc = "done"
    /\ ~PreRun(1) /\ ~PreRun(2)
    /\ ThisRun(1) /\ ThisRun(2)

\* C4: at every step of safe_json_write the final path holds the complete
\* previous content (before the rename) or the complete new content (after).
C4_AtomicWrite ==
    pc # "idle" =>
        \A n \in 1..2 : IF Renamed(n) THEN ThisRun(n) ELSE PreRun(n)

\* terminated between the completed temporary file and the rename
C4_Witness ==
    /\ pc = "killed" /\ cause = "replace1"
    /\ fs[TmpPath(PUBLIC_PARTNERS_PATH)] = JsonFile(WriteData(1))
    /\ fs[PUBLIC_PARTNERS_PATH] = JsonFile(OldSnapshot)

\* the rows of the data source, and those the run has gone through
AllPos ==
    UNION { { <<p, r>> : r \in 1..Len(upstream[p]) } : p \in 1..Len(upstream) }
NodeAt(pos) == upstream[pos[1]][pos[2]]
Processed(pos) ==
    pos[1] < cursor + 1 \/ (pos[1] = cursor + 1 /\ pos[2] < row)
EligiblePos == { pos \in AllPos : Eligible(NodeAt(pos)) }

\* the second of two consecutive completed runs has completed, and it
\* started with the key of every eligible record in the cache file
WarmRerun ==
    /\ pc = "done" /\ runs >= 2 /\ prev.status = "done"
    /\ pre[PUBLIC_GEOCACHE_PATH].kind = "json"
    /\ \A pos \in EligiblePos :
          InCache(pre[PUBLIC_GEOCACHE_PATH].data, cache_key(NodeAt(pos)))

PartnersOf(file) == file.data.partners
WithoutActivity(ps) ==
    [i \in 1..Len(ps) |->
        [partner_id |-> ps[i].partner_id, zip |-> ps[i].zip, city |-> ps[i].city,
         country |-> ps[i].country, lat |-> ps[i].lat, lng |-> ps[i].lng]]

\* C5 as claimed: the second of two consecutive completed runs, started from
\* the cache left by the first with every eligible key cached, writes the same
\* partner list (generated_at aside) and leaves geocache.json unchanged.
C5_Idempotent ==
    WarmRerun =>
        /\ PartnersOf(fs[PUBLIC_PARTNERS_PATH]) = PartnersOf(pre[PUBLIC_PARTNERS_PATH])
        /\ fs[PUBLIC_GEOCACHE_PATH] = pre[PUBLIC_GEOCACHE_PATH]

\* the first run skipped no eligible record
FirstRunComplete ==
    Len(PartnersOf(pre[PUBLIC_PARTNERS_PATH])) = Cardinality(EligiblePos)

\* C5 as amended: if moreover the first run omitted no eligible record, the
\* second run writes the same partner list except for the activity objects,
\* which are computed from the run's reference time and are the same too when
\* both runs have the same reference time; geocache.json is unchanged.
C5_IdempotentModuloTime ==
    (WarmRerun /\ FirstRunComplete) =>
        /\ WithoutActivity(PartnersOf(fs[PUBLIC_PARTNERS_PATH]))
              = WithoutActivity(PartnersOf(pre[PUBLIC_PARTNERS_PATH]))
        /\ now = prev.now =>
              PartnersOf(fs[PUBLIC_PARTNERS_PATH]) = PartnersOf(pre[PUBLIC_PARTNERS_PATH])
        /\ fs[PUBLIC_GEOCACHE_PATH] = pre[PUBLIC_GEOCACHE_PATH]

\* a warm second run a day later: same partners, another last_order_days
C5_Witness ==
    /\ WarmRerun /\ FirstRunComplete
    /\ now # prev.now
    /\ Len(partners) > 0
    /\ PartnersOf(fs[PUBLIC_PARTNERS_PATH]) # PartnersOf(pre[PUBLIC_PARTNERS_PATH])

\* a call that ended because every attempt up to the ceiling failed
RetriesExhausted ==
    \/ pc = "failed" /\ cause = "retries_exhausted"
    \/ last.result = "exhausted"

\* C6: exhausting the retries of either API is a fatal error: the run aborts
\* and no artifact is written.
C6_ExhaustedIsFatal ==
    RetriesExhausted => pc = "failed" /\ PreRun(1) /\ PreRun(2)

\* min(60, 2^k), written out
ExpectedSleep(k) == IF 2 ^ k > 60 THEN 60 ELSE 2 ^ k

\* C7: in geocode_location every response that leads to another request
\* (a transient HTTP status or a provider status other than OK / ZERO_RESULTS /
\* INVALID_REQUEST) is followed by a sleep of min(60, 2^attempt) seconds.
C7_GeocodeAlwaysBacksOff ==
    api = "geocode" =>
        \A i \in 1..Len(log) :
            log[i].resp \in {"transient", "other_status"} =>
                log[i].sleep = ExpectedSleep(i - 1)

\* C8: one call issues at most 6 (shopify_graphql) or 5 (geocode_location)
\* requests; after a transient status on attempt k it sleeps min(60, 2^k)
\* seconds; the sleeps of a call never decrease and never exceed 60.
C8_BoundedBackoff ==
    /\ api = "shopify" => Len(log) <= 6
    /\ api = "geocode" => Len(log) <= 5
    /\ last.api = "shopify" => last.requests <= 6
    /\ last.api = "geocode" => last.requests <= 5
    /\ last.requests > 0 => last.sleep \in {0, ExpectedSleep(last.requests - 1)}
    /\ \A i \in 1..Len(log) :
          /\ log[i].resp = "transient" => log[i].sleep = ExpectedSleep(i - 1)
          /\ log[i].sleep <= 60
          /\ \A j \in 1..Len(log) :
                (i < j /\ log[i].resp = "transient" /\ log[j].resp = "transient")
                    => log[i].sleep <= log[j].sleep

\* shopify_graphql gave up after six requests and the sleeps 1, 2, 4, 8, 16, 32
C8_Witness ==
    /\ pc = "failed" /\ api = "shopify" /\ cause = "retries_exhausted"
    /\ Len(log) = 6
    /\ log[6].sleep = 32

\* C9: a non-transient error status, or a non-empty errors list, ends the call
\* at once: it is the last request of the call, no sleep follows it, and the
\* run has failed.
C9_NonRetryableIsFatal ==
    \A i \in 1..Len(log) :
        log[i].resp \in {"http_error", "errors"} =>
            /\ i = Len(log)
            /\ log[i].sleep = 0
            /\ pc = "failed"
            /\ cause = (IF log[i].resp = "errors" THEN "graphql_errors" ELSE "http_error")

\* the third request of a fetch came back with an errors list
C9_Witness ==
    /\ pc = "failed" /\ api = "shopify" /\ cause = "graphql_errors"
    /\ Len(log) = 3
    /\ log[3].resp = "errors"

\* the effects of "no result" on the run: a skipped row adds no partner, only
\* a successful lookup changes the cache, the run goes on
NoResultSkipsRow ==
    /\ Len(partners) + Cardinality(dropped)
          = Cardinality({ pos \in EligiblePos : Processed(pos) })
    /\ \A k \in Keys :
          geocache[k] # loaded[k] =>
              \E pos \in geocoded \ dropped :
                  Processed(pos) /\ cache_key(NodeAt(pos)) = k
    \* no request fails in SpecRerun: a run fails there only when the look-up
    \* in a cache that is not a mapping raises, never for "no result"
    /\ pc = "failed" => cause = "attribute_error"
    /\ pc = "done" =>
          /\ PartnersOf(fs[PUBLIC_PARTNERS_PATH]) = partners
          /\ fs[PUBLIC_GEOCACHE_PATH] = JsonFile(geocache)

\* C10 as claimed: a record for which the geocoder reports no result is left
\* out, nothing is stored under its key, the run goes on, and a later run
\* calls the geocoder for that record again.
C10_NoResultRetriedByLaterRun ==
    pc # "idle" =>
        /\ NoResultSkipsRow
        /\ \A pos \in prev.dropped : Processed(pos) => pos \in geocoded

\* C10 as amended: ... and a later run calls the geocoder for that record
\* again unless its key has been cached in the meantime by a successful
\* lookup for another record with the same key.
C10_NoResultRetriedWhileUncached ==
    pc # "idle" =>
        /\ NoResultSkipsRow
        /\ \A pos \in prev.dropped :
              Processed(pos) =>
                  pos \in geocoded \/ Truthy(geocache[cache_key(NodeAt(pos))])

\* a record skipped for "no result" by the first run is looked up, and
\* skipped, again by the second, which leaves the cache as it was
C10_Witness ==
    /\ pc = "done" /\ runs >= 2
    /\ \E pos \in prev.dropped : pos \in geocoded /\ pos \in dropped
    /\ geocache = loaded

(***************************************************************************)
(* Properties of the snapshot                                              *)
(***************************************************************************)
\* the partner list of partners.json
Written == PartnersOf(fs[PUBLIC_PARTNERS_PATH])

\* source order: page order, then row order
Before(a, b) == a[1] < b[1] \/ (a[1] = b[1] /\ a[2] < b[2])

RECURSIVE InOrder(_)
InOrder(S) ==
    IF S = {} THEN <<>>
    ELSE LET first == CHOOSE a \in S : \A b \in S : a = b \/ Before(a, b)
         IN  <<first>> \o InOrder(S \ {first})

\* the rows consumed so far that are eligible and whose coordinates were
\* resolved (by the cache or by the geocoder), in source order
Kept == InOrder({ pos \in EligiblePos : Processed(pos) /\ pos \notin dropped })

LocationIncomplete(node) ==
    Field(node.mf_plz) = "" \/ Field(node.mf_stadt) = "" \/ Field(node.mf_land) = ""

\* C11: every partner of a written snapshot has a non-empty zip, city and
\* country and a resolved lat/lng pair, whatever the source returned and
\* whatever the cache file held before the run; no record with an empty or
\* absent location field is in the snapshot.
C11_PartnersAreLocated ==
    pc = "done" =>
        \A i \in 1..Len(Written) :
            /\ Written[i].zip # "" /\ Written[i].city # "" /\ Written[i].country # ""
            /\ Written[i].lat # JsonNull /\ Written[i].lng # JsonNull
            /\ \A pos \in AllPos :
                  LocationIncomplete(NodeAt(pos)) => NodeAt(pos).id # Written[i].partner_id

\* C12: no two partners of a written snapshot have the same partner_id,
\* whatever sequence of pages the source returned.
C12_UniquePartnerIds ==
    pc = "done" =>
        \A i, j \in 1..Len(Written) :
            i # j => Written[i].partner_id # Written[j].partner_id

\* "present and explicitly true"
Suppressed(node) == parse_bool(node.suppression_flag)

\* C16: a record whose suppression flag is true is not in the written
\* snapshot, even if it is listed and its location is complete; a record
\* whose flag is absent or false is not left out for that reason.
C16_SuppressedNeverListed ==
    pc = "done" =>
        /\ \A pos \in AllPos :
              Suppressed(NodeAt(pos)) =>
                  \A i \in 1..Len(Written) : Written[i].partner_id # NodeAt(pos).id
        /\ \A pos \in EligiblePos \ dropped :
              ~Suppressed(NodeAt(pos)) =>
                  \E i \in 1..Len(Written) : Written[i].partner_id = NodeAt(pos).id

\* the keys which the geocoder has resolved in this run, with the rows
ResolvedFor(k) ==
    { pos \in geocoded \ dropped : Processed(pos) /\ cache_key(NodeAt(pos)) = k }

\* C17: the geocoder is never called for a record whose key is present in
\* the cache (loaded, or stored earlier in the run); the partner of a
\* record has the coordinates the cache holds for its key; the geocoder
\* resolves a key at most once in a run.
C17_CacheHitTrusted ==
    /\ pc = "geocode" => ~InCache(geocache, cache_key(Node))
    /\ Len(partners) = Len(Kept)
    /\ \A i \in 1..Len(partners) :
          LET cached == geocache[cache_key(NodeAt(Kept[i]))]
          IN  partners[i].lat = cached.lat /\ partners[i].lng = cached.lng
    /\ \A k \in Keys : Cardinality(ResolvedFor(k)) <= 1

\* C18: the snapshot of a completed run holds exactly the records of this
\* run that are listed, have a complete location and resolved coordinates,
\* in source order; nothing of the previous partners.json is carried over.
C18_RebuiltWholesale ==
    pc = "done" =>
        /\ Len(Written) = Len(Kept)
        /\ \A i \in 1..Len(Kept) :
              LET node == NodeAt(Kept[i])
                  cached == geocache[cache_key(node)]
              IN  Written[i] = Partner(node, cached.lat, cached.lng, now)

\* a run over two pages replaced an old snapshot: it kept records of both
\* pages, skipped a record that is not eligible and one without coordinates
C18_Witness ==
    /\ pc = "done"
    /\ pre[PUBLIC_PARTNERS_PATH] = JsonFile(OldSnapshot)
    /\ \E i, j \in 1..Len(Kept) : Kept[i][1] = 1 /\ Kept[j][1] = 2
    /\ dropped # {}
    /\ AllPos \ EligiblePos # {}
    /\ Len(Written) = Len(Kept)

(***************************************************************************)
(* Properties of a run that meets no failing request (SpecLive)            *)
(***************************************************************************)
InWritePhase == pc \in {"open1", "dump1", "replace1", "open2", "dump2", "replace2", "done"}

\* C14: the cursor moves on only when all rows of the page are consumed and
\* the source reports a next page; the run starts to write only when the
\* source reports no next page; and when every request is answered the run
\* eventually completes with both files written.
C14_RunsToCompletion ==
    /\ [][cursor' # cursor => (row > Len(Page) /\ hasNextPage)]_vars
    /\ [](InWritePhase => (row > Len(Page) /\ ~hasNextPage))
    /\ <>(pc = "done" /\ ThisRun(1) /\ ThisRun(2))

\* the cache file does not hold a JSON object
Damaged(file) == file \in { Absent, Truncated, JsonFile(WrongShapeCache) }

\* C15: when geocache.json is absent or malformed in any way, well-formed
\* JSON of the wrong shape included, the run starts from the empty cache,
\* no exception is raised because of the file, and a completed run has
\* written a snapshot and a cache that is a JSON object.
C15_LoaderNeverBlocks ==
    (pc # "idle" /\ Damaged(pre[PUBLIC_GEOCACHE_PATH])) =>
        /\ api # "token" => loaded = EmptyCache
        /\ cause # "attribute_error"
        /\ pc = "done" =>
              /\ ThisRun(1)
              /\ fs[PUBLIC_GEOCACHE_PATH].kind = "json"
              /\ ~Damaged(fs[PUBLIC_GEOCACHE_PATH])

(***************************************************************************)
(* Properties of the helper functions (SpecApplied)                        *)
(***************************************************************************)
Returned(fn) == applied.fn = fn /\ applied.returned

\* the four-tier policy as the specification words it, first match wins
TierPolicy(o6, o12, lod) ==
    LET recent == lod.some /\ lod.v <= 60
    IN  CASE o12 <= 0 /\ ~lod.some -> None
          [] ~(o12 <= 0 /\ ~lod.some) /\ o12 >= 10 /\ recent -> "Sehr aktiv"
          [] ~(o12 <= 0 /\ ~lod.some) /\ ~(o12 >= 10 /\ recent)
               /\ (o6 >= 3 \/ o12 >= 6) -> "Regelmaessig aktiv"
          [] ~(o12 <= 0 /\ ~lod.some) /\ ~(o12 >= 10 /\ recent)
               /\ ~(o6 >= 3 \/ o12 >= 6) /\ recent -> "Kuerzlich aktiv"
          [] ~(o12 <= 0 /\ ~lod.some) /\ ~(o12 >= 10 /\ recent)
               /\ ~(o6 >= 3 \/ o12 >= 6) /\ ~recent /\ o12 > 0 -> "Aktiv"
          [] OTHER -> None

\* the five cases the specification lists: <<orders_6m, orders_12m,
\* last_order_days>> and the label it names
ListedCases ==
    { << <<1, 10, SomeInt(10)>>, "Sehr aktiv" >>,
      << <<0, 0, NoInt>>, None >>,
      << <<0, 1, SomeInt(200)>>, "Aktiv" >>,
      << <<0, 0, SomeInt(5)>>, "Kuerzlich aktiv" >>,
      << <<3, 3, NoInt>>, "Regelmaessig aktiv" >> }

\* C13: for every triple (orders_6m, orders_12m, last_order_days),
\* classify_activity returns the label of the four-tier policy with
\* first-match precedence, and the five listed cases give high / none /
\* active / recently active / regular.
C13_FourTierPolicy ==
    Returned("classify_activity") =>
        /\ applied.ret = TierPolicy(applied.args[1], applied.args[2], applied.args[3])
        /\ \A c \in ListedCases : applied.args = c[1] => applied.ret = c[2]

\* a triple that matches both the "regular" and the "recent" tier was
\* classified, and so was the listed case without any order date
C13_Witness ==
    /\ Returned("classify_activity")
    /\ applied.args = <<3, 3, SomeInt(5)>>
    /\ applied.ret = "Regelmaessig aktiv"
    /\ <<applied.args, applied.ret>> \notin ListedCases

\* C19: for every input, parse_list returns a list of non-empty strings:
\* the elements of a JSON list in their order without the blank ones,
\* otherwise the single trimmed raw string, otherwise the empty list; the
\* result never contains an empty string.
C19_ListOfNonEmptyStrings ==
    Returned("parse_list") =>
        /\ \A i \in 1..Len(applied.ret) : applied.ret[i] # ""
        /\ LET val == applied.args[1]
               s == IF val = None THEN "" ELSE Strip(val)
           IN  applied.ret =
                   IF Bracketed(s) /\ json_loads(s).ok
                   THEN SelectSeq(json_loads(s).arr, NotBlank)
                   ELSE IF s # "" THEN <<s>> ELSE <<>>

\* the order dates of the customer that can be parsed
Parseable(orders) == { i \in 1..Len(orders) : orders[i] # Unparseable }

\* C20: for a partner whose order dates are all at or before the reference
\* time of the run, orders_6m <= orders_12m, last_order_days is null
\* exactly when no order date can be parsed, and the label is null exactly
\* when orders_12m = 0.
C20_ActivityConsistent ==
    LET orders == applied.args[1]
        t == applied.args[2]
        a == applied.ret
    IN  (Returned("activity") /\ \A i \in Parseable(orders) : orders[i] <= t) =>
            /\ a.orders_6m <= a.orders_12m
            /\ ~a.last_order_days.some <=> Parseable(orders) = {}
            /\ a.label = None <=> a.orders_12m = 0

\* a customer whose only parseable order is older than twelve months: it
\* has a last_order_days, no order in the window and no label
C20_Witness ==
    /\ Returned("activity")
    /\ \A i \in Parseable(applied.args[1]) : applied.args[1][i] <= applied.args[2]
    /\ Parseable(applied.args[1]) # {}
    /\ Len(applied.args[1]) > Cardinality(Parseable(applied.args[1]))
    /\ applied.ret.last_order_days.some
    /\ applied.ret.last_order_days.v > DAYS_12M
    /\ applied.ret.orders_12m = 0
    /\ applied.ret.label = None

====
